---- MODULE Spec2Model ----
(***************************************************************************)
(* A model of classgit.py: one device's ~/ClassGit directory (config/,     *)
(* courses/, encrypted/, .gitignore, README.md, .git) and the remote       *)
(* repository it synchronises with.  Every menu operation is one action    *)
(* that models the whole handler; the exit status of each external         *)
(* command (age, age-keygen, git) is an input of the action.               *)
(*                                                                         *)
(* Paths are sequences of path components (strings).  A file is a record   *)
(* [data, mtime]; data is a record [kind, k, c]:                           *)
(*   plain  : course text number c                                         *)
(*   cipher : age ciphertext of data number c (c = 0: of the key file)     *)
(*            for recipient k                                              *)
(*   key    : the private key file of keypair k                            *)
(*   text   : a fixed text written by the program (c = 1 the .gitignore of *)
(*            configure_repo, c = 2 the .gitignore of push_courses,        *)
(*            c = 3 README.md)                                             *)
(*   junk   : a file that is not age output                                *)
(***************************************************************************)
EXTENDS Integers, Sequences, FiniteSets, TLC

\* ------------------------------------------------------------------ bounds
\* The latest clock tick (modification times are ticks 0..MaxClock).
MaxClock == 1
\* Course file contents are numbered 1..MaxContent.
MaxContent == 2
\* Ahead/behind counts reported by git are capped at MaxAB.
MaxAB == 2

\* ------------------------------------------------------- the file universe
\* Relative paths of course files under courses/: one at the root, one two
\* directories deep and alone in its directory (the directories lie on one
\* chain, so os.walk's top-down order is determined).
SrcPaths == { <<"a.t">>, <<"m", "x", "n">> }

\* Directories that can exist under courses/ and encrypted/ (relative).
SrcDirs == { <<"m">>, <<"m", "x">> }

\* The keypair of this device is number 1; the operator may store the public
\* key of keypair 1 or of a foreign keypair 2 as recipient.
OwnKey == 1
KeyIds == {1, 2}

Plain(c) == [kind |-> "plain", k |-> 0, c |-> c]
KeyData == [kind |-> "key", k |-> OwnKey, c |-> 0]
TextData(n) == [kind |-> "text", k |-> 0, c |-> n]
JunkData == [kind |-> "junk", k |-> 0, c |-> 0]

\* ----------------------------------------------------------- configuration
\* Paths relative to LOCAL_DIR.
CONFIG_DIR == <<"config">>
COURSES_DIR == <<"courses">>
AGE_KEY_PATH == CONFIG_DIR \o <<"age_key.txt">>
REPO_FILE == CONFIG_DIR \o <<"repo_url.txt">>
PUBLIC_KEY_FILE == CONFIG_DIR \o <<"public_key.txt">>
ENCRYPTED_DIR == <<"encrypted">>
GITIGNORE_PATH == <<".gitignore">>
README_PATH == <<"README.md">>

\* Destinations the operator may give to add_device: one inside LOCAL_DIR
\* (outside config/ and courses/) and one outside LOCAL_DIR.
InsideDest == <<"backup", "age_key.txt">>
OutsideDest == <<"..", "usb", "age_key.txt">>
KeyDests == { InsideDest, OutsideDest }

\* ------------------------------------------------------------ path helpers
Last(s) == s[Len(s)]
Parent(p) == SubSeq(p, 1, Len(p) - 1)
IsPrefix(d, p) == Len(d) <= Len(p) /\ SubSeq(p, 1, Len(d)) = d
IsProperPrefix(d, p) == Len(d) < Len(p) /\ IsPrefix(d, p)
\* All proper ancestors of p below the root (the directories p needs).
Ancestors(p) == { SubSeq(p, 1, n) : n \in 1..(Len(p) - 1) }

\* str.endswith(".age")
EndsWithAge(name) ==
  Len(name) >= 4 /\ SubSeq(name, Len(name) - 3, Len(name)) = ".age"

\* str.rfind("."): the 0-based index of the last dot, -1 when there is none.
RECURSIVE RFindDotFrom(_, _)
RFindDotFrom(name, i) ==
  IF i = 0 THEN -1
  ELSE IF SubSeq(name, i, i) = "." THEN i - 1
  ELSE RFindDotFrom(name, i - 1)
RFindDot(name) == RFindDotFrom(name, Len(name))

\* PurePath.suffix: the part from the last dot on, when the dot is neither
\* the first nor the last character of the name.
Suffix(name) ==
  LET i == RFindDot(name)
  IN IF 0 < i /\ i < Len(name) - 1 THEN SubSeq(name, i + 1, Len(name)) ELSE ""

\* PurePath.with_suffix(''): the path with the last component's suffix cut.
WithSuffixEmpty(p) ==
  LET name == Last(p)
      suf == Suffix(name)
  IN [p EXCEPT ![Len(p)] = SubSeq(name, 1, Len(name) - Len(suf))]

\* dst = encrypted_dir / rel_path / (f + ".age"), relative to encrypted/.
MirrorPath(p) == [p EXCEPT ![Len(p)] = @ \o ".age"]

\* ------------------------------------------------------------------- state
VARIABLES
  pc,          \* "stopped": no process; "menu": menu() is waiting for a choice
  clock,       \* the current time tick
  cfg,         \* config/: [key, repo: BOOLEAN, rcpt: 0 (no file) or a key id]
  courses,     \* courses/: relative path -> [data, mtime]
  courseDirs,  \* the directories under courses/
  mirror,      \* encrypted/: relative path -> [data, mtime]
  mirrorDirs,  \* the directories under encrypted/; <<>> is encrypted/ itself
  rootFiles,   \* other files of LOCAL_DIR (and key copies outside): path -> data
  git,         \* [exists, upstream: BOOLEAN, ahead, behind: Nat]
  index,       \* the paths git tracks: path -> data
  remoteTree,  \* the tree of the remote's main branch: path -> data
  hist         \* what the last operation did (a record, see NoHist)

vars == << pc, clock, cfg, courses, courseDirs, mirror, mirrorDirs, rootFiles,
           git, index, remoteTree, hist >>

NoPath == << >>

EmptyTree == [p \in {} |-> JunkData]
EmptyFiles == [p \in {} |-> [data |-> JunkData, mtime |-> 0]]

\* What the last operation did.  steps is the sequence of external commands
\* it ran, each [cmd, ok]; the other fields are filled by push and pull.
NoHist ==
  [ op |-> "none",        \* the operation
    at |-> 0,             \* the clock tick at which it ran
    steps |-> << >>,      \* external commands run, in order
    done |-> FALSE,       \* the handler returned (no exit, no exception)
    early |-> FALSE,      \* push returned at "No course files found"
    stale |-> {},         \* push: source files that needed encryption
    encrypted |-> {},     \* push: source files encrypted
    srcBefore |-> EmptyFiles,  \* push: courses/ when push started
    mirBefore |-> EmptyFiles,  \* push, pull: encrypted/ before the handler
    dirsBefore |-> {},    \* push: mirrorDirs before the handler
    staged |-> {},        \* push: paths in the index after git add -A
    attempted |-> {},     \* pull: mirror files whose decryption was run
    written |-> {},       \* pull: destinations written by a decryption
    prevPush |-> FALSE,   \* the operation before this one was a completed push
    pushSrc |-> EmptyFiles,    \* pull: courses/ at that push
    pushEnc |-> {},       \* pull: the files that push encrypted
    pushMir |-> EmptyFiles,    \* pull: encrypted/ before that push
    failed |-> {},        \* pull: mirror files whose decryption failed
    loop |-> FALSE,       \* pull: the decryption loop was reached
    deleted |-> NoPath,   \* the course file the operator deleted just before
    ab |-> << FALSE, 0, 0 >> ] \* pull: upstream, ahead, behind at git status

Step(cmd, ok) == [cmd |-> cmd, ok |-> ok]

\* ------------------------------------------------------------ external age
\* age -r recipient -o out file
Encrypt(data, recipient) == [kind |-> "cipher", k |-> recipient, c |-> data.c]

\* age -d -i key: succeeds on a ciphertext made for the key's recipient.
CanDecrypt(data, keyId) == data.kind = "cipher" /\ data.k = keyId
\* A variant that hands back the ciphertext.
DecryptKeepsCipher(data, keyId) == data
\* The plaintext that age -d writes.
Decrypt(data, keyId) ==
  IF data.c = 0 THEN [kind |-> "key", k |-> keyId, c |-> 0] ELSE Plain(data.c)

\* ---------------------------------------------------------------- worktree
\* Every file under LOCAL_DIR with its content, by path relative to LOCAL_DIR.
ConfigFiles ==
  (IF cfg.key THEN {AGE_KEY_PATH} ELSE {})
    \cup (IF cfg.repo THEN {REPO_FILE} ELSE {})
    \cup (IF cfg.rcpt # 0 THEN {PUBLIC_KEY_FILE} ELSE {})

InLocalDir(p) == p[1] # ".."

WorkPaths(crs, mir, roots) ==
  ConfigFiles
    \cup { COURSES_DIR \o p : p \in DOMAIN crs }
    \cup { ENCRYPTED_DIR \o q : q \in DOMAIN mir }
    \cup { p \in DOMAIN roots : InLocalDir(p) }

WorkData(crs, mir, roots, p) ==
  IF p = AGE_KEY_PATH THEN KeyData
  ELSE IF p[1] = "config" THEN TextData(0)
  ELSE IF p[1] = "courses" THEN crs[SubSeq(p, 2, Len(p))].data
  ELSE IF p[1] = "encrypted" THEN mir[SubSeq(p, 2, Len(p))].data
  ELSE roots[p]

\* -------------------------------------------------------------- .gitignore
\* A pattern: neg ("!" prefix), dirOnly (trailing "/"), anchored (a "/" inside
\* the pattern: it matches from the .gitignore's directory only), parts.
Pat(neg, dirOnly, anchored, parts) ==
  [neg |-> neg, dirOnly |-> dirOnly, anchored |-> anchored, parts |-> parts]

\* configure_repo: f.write("config/age_key.txt\n")
GitignoreConfigure == << Pat(FALSE, FALSE, TRUE, <<"config", "age_key.txt">>) >>

\* A variant of push's .gitignore that lacks the config/ line.
GitignorePushNoConfig ==
  << Pat(FALSE, TRUE, FALSE, <<"courses">>),
     Pat(TRUE, FALSE, FALSE, <<".gitignore">>),
     Pat(TRUE, FALSE, FALSE, <<"README.md">>) >>

\* push_courses: config/, courses/, !.gitignore, !README.md
GitignorePush ==
  << Pat(FALSE, TRUE, FALSE, <<"config">>),
     Pat(FALSE, TRUE, FALSE, <<"courses">>),
     Pat(TRUE, FALSE, FALSE, <<".gitignore">>),
     Pat(TRUE, FALSE, FALSE, <<"README.md">>) >>

\* The patterns of the .gitignore in the worktree.
GitignorePatterns(roots) ==
  IF GITIGNORE_PATH \notin DOMAIN roots THEN << >>
  ELSE IF roots[GITIGNORE_PATH] = TextData(1) THEN GitignoreConfigure
  ELSE IF roots[GITIGNORE_PATH] = TextData(2) THEN GitignorePush
  ELSE << >>

PatMatches(pat, comps, isDir) ==
  /\ pat.dirOnly => isDir
  /\ IF pat.anchored THEN comps = pat.parts
     ELSE Last(comps) = pat.parts[1]

\* The last pattern that matches decides; 0 when none matches.
LastMatch(pats, comps, isDir) ==
  LET hits == { i \in 1..Len(pats) : PatMatches(pats[i], comps, isDir) }
  IN IF hits = {} THEN 0 ELSE CHOOSE i \in hits : \A j \in hits : j <= i

Excluded(pats, comps, isDir) ==
  LET i == LastMatch(pats, comps, isDir) IN i > 0 /\ ~pats[i].neg

\* A file is ignored when one of its parent directories is excluded (nothing
\* below an excluded directory can be re-included) or the file itself is.
PathIgnored(pats, p) ==
  \/ \E n \in 1..(Len(p) - 1) : Excluded(pats, SubSeq(p, 1, n), TRUE)
  \/ Excluded(pats, p, FALSE)

\* git add -A: every file of the worktree that is not ignored, and every
\* tracked file still present, with its current content.
GitAddAll(crs, mir, roots, idx) ==
  LET pats == GitignorePatterns(roots)
      paths == { p \in WorkPaths(crs, mir, roots) :
                   ~PathIgnored(pats, p) \/ p \in DOMAIN idx }
  IN [p \in paths |-> WorkData(crs, mir, roots, p)]

\* ----------------------------------------------------------- git checkout
\* What git reset --hard / git pull --ff-only do to encrypted/ when the
\* worktree moves to tree t: a tracked file that t lacks is deleted, a file of
\* t is written when it is missing or differs, an untracked file stays.
EncPart(t) ==
  { SubSeq(p, 2, Len(p)) : p \in { x \in DOMAIN t : x[1] = "encrypted" /\ Len(x) > 1 } }

CheckoutMirror(t, idx, mir, now) ==
  LET inT == EncPart(t)
      gone == EncPart(idx) \ inT
      keep == (DOMAIN mir \ gone) \cup inT
  IN [q \in keep |->
        IF q \in inT
        THEN IF q \in DOMAIN mir /\ mir[q].data = t[ENCRYPTED_DIR \o q]
             THEN mir[q]
             ELSE [data |-> t[ENCRYPTED_DIR \o q], mtime |-> now]
        ELSE mir[q]]

\* The directories of encrypted/ afterwards: those the files of t need are
\* made, and a directory emptied by the deletion of tracked files is removed.
CheckoutMirrorDirs(t, idx, mir, dirs) ==
  LET newMir == CheckoutMirror(t, idx, mir, 0)
      gone == (EncPart(idx) \ EncPart(t)) \cap DOMAIN mir
      made == UNION { Ancestors(q) \cup { << >> } : q \in EncPart(t) }
      cand == UNION { Ancestors(q) \cup { << >> } : q \in gone }
      all == dirs \cup made
      emptied == { d \in cand :
                     /\ \A q \in DOMAIN newMir : ~IsPrefix(d, q)
                     /\ \A e \in all \ cand : ~IsProperPrefix(d, e) }
  IN all \ emptied

\* The same for the files of LOCAL_DIR outside config/, courses/, encrypted/.
CheckoutRoots(t, idx, roots) ==
  LET isRoot(p) == p[1] \notin {"config", "courses", "encrypted"}
      inT == { p \in DOMAIN t : isRoot(p) }
      gone == { p \in DOMAIN idx : isRoot(p) } \ inT
      keep == (DOMAIN roots \ gone) \cup inT
  IN [p \in keep |-> IF p \in inT THEN t[p] ELSE roots[p]]

\* ------------------------------------------------------------- git status
Digits == << "0", "1", "2", "3", "4", "5", "6", "7", "8", "9" >>
ToStr(n) == IF n < 10 THEN Digits[n + 1] ELSE Digits[(n \div 10) + 1] \o Digits[(n % 10) + 1]

\* The output of git status --porcelain=2 --branch: the branch.upstream and
\* branch.ab lines are printed when the current branch has an upstream.
StatusStdout(upstream, ahead, behind) ==
  "# branch.oid 1f\n# branch.head main\n"
    \o (IF upstream
        THEN "# branch.upstream origin/main\n# branch.ab +" \o ToStr(ahead)
               \o " -" \o ToStr(behind) \o "\n"
        ELSE "")

\* Python's  sub in s
Contains(s, sub) ==
  \E i \in 1..(Len(s) - Len(sub) + 1) : SubSeq(s, i, i + Len(sub) - 1) = sub

\* pull_courses, line 249
Diverged(stdout) == Contains(stdout, "branch.ab") /\ Contains(stdout, "+")

\* -------------------------------------------------------------------- push
\* The course file deleted by the operator right before this operation.
JustDeleted == IF hist.op = "delete" THEN hist.deleted ELSE NoPath

\* os.walk(COURSES_DIR), top-down: the files of a directory come before the
\* files of the directories below it.
RECURSIVE WalkOrder(_)
WalkOrder(files) ==
  IF files = {} THEN << >>
  ELSE LET f == CHOOSE x \in files : \A y \in files : Len(x) <= Len(y)
       IN << f >> \o WalkOrder(files \ {f})

IndexOf(seq, x) == CHOOSE i \in 1..Len(seq) : seq[i] = x

\* A variant of the staleness test with >= for >.
NeedsEncryptNotStrict(src, mir, p) ==
  \/ MirrorPath(p) \notin DOMAIN mir
  \/ src[p].mtime >= mir[MirrorPath(p)].mtime
\* line 173: not dst.exists() or src.stat().st_mtime > dst.stat().st_mtime
NeedsEncrypt(src, mir, p) ==
  \/ MirrorPath(p) \notin DOMAIN mir
  \/ src[p].mtime > mir[MirrorPath(p)].mtime

\* lines 178-193: a mirror file named *.age whose source does not exist.
IsOrphan(q) ==
  /\ EndsWithAge(Last(q))
  /\ WithSuffixEmpty(q) \notin DOMAIN courses
  /\ WithSuffixEmpty(q) \notin courseDirs

\* lines 156-158
NothingToPush == DOMAIN courses = {} /\ courseDirs = {}

\* lines 196-205, bottom-up: a directory other than encrypted/ itself is
\* removed when nothing is left below it.
RemoveEmptyDirs(dirs, mir) ==
  { d \in dirs : d = << >> \/ \E q \in DOMAIN mir : IsPrefix(d, q) }

\* lines 223-232
GitSnapshotCmds ==
  << "git checkout --orphan temp-branch", "git add -A", "git commit",
     "git branch -D main", "git branch -m main", "git reflog expire",
     "git gc", "git push --force origin main" >>

\* The commands cmds run in order, the one at position failAt exiting
\* non-zero (0: none does): the steps that were run.
RunSteps(cmds, failAt) ==
  IF failAt = 0 THEN [i \in 1..Len(cmds) |-> Step(cmds[i], TRUE)]
  ELSE [i \in 1..failAt |-> Step(cmds[i], i < failAt)]

OkCount(cmds, failAt) == IF failAt = 0 THEN Len(cmds) ELSE failAt - 1

\* push_courses with no course file: lines 155-158.
PushEarly ==
  /\ pc = "menu"
  /\ NothingToPush
  /\ hist' = [NoHist EXCEPT !.op = "push", !.at = clock, !.done = TRUE, !.early = TRUE,
                            !.srcBefore = courses, !.mirBefore = mirror,
                            !.dirsBefore = mirrorDirs,
                            !.deleted = JustDeleted,
                            !.prevPush = (hist.op = "push" /\ hist.done /\ ~hist.early)]
  /\ UNCHANGED << pc, clock, cfg, courses, courseDirs, mirror, mirrorDirs,
                  rootFiles, git, index, remoteTree >>

\* push_courses, an encryption failing: encFail is the source file on which
\* age exits non-zero; subprocess.run(check=True) raises and the process ends.
PushEncryptFails(encFail) ==
  LET order == WalkOrder(DOMAIN courses)
      stale == { p \in DOMAIN courses : NeedsEncrypt(courses, mirror, p) }
      encOk == { p \in stale : IndexOf(order, p) < IndexOf(order, encFail) }
      encSeq == SelectSeq(order, LAMBDA p : p \in encOk \cup {encFail})
  IN
  /\ pc = "menu"
  /\ ~NothingToPush
  /\ encFail \in stale
  /\ mirror' = [q \in DOMAIN mirror \cup { MirrorPath(p) : p \in encOk } |->
                  IF \E p \in encOk : MirrorPath(p) = q
                  THEN LET p == CHOOSE p \in encOk : MirrorPath(p) = q
                       IN [data |-> Encrypt(courses[p].data, cfg.rcpt), mtime |-> clock]
                  ELSE mirror[q]]
  /\ mirrorDirs' = mirrorDirs \cup { << >> }
                     \cup { d \in courseDirs : IsPrefix(Parent(d), Parent(encFail)) }
  /\ pc' = "stopped"
  /\ hist' = [NoHist EXCEPT !.op = "push", !.at = clock,
                !.steps = [i \in 1..Len(encSeq) |->
                             Step("age -r", encSeq[i] # encFail)],
                !.stale = stale, !.encrypted = encOk,
                !.srcBefore = courses, !.mirBefore = mirror,
                !.dirsBefore = mirrorDirs, !.deleted = JustDeleted]
  /\ UNCHANGED << clock, cfg, courses, courseDirs, rootFiles, git, index, remoteTree >>

\* push_courses, every encryption succeeding; gitFail is the position of the
\* git command of the snapshot sequence that exits non-zero (0: none).
PushCourses(gitFail) ==
  LET order == WalkOrder(DOMAIN courses)
      stale == { p \in DOMAIN courses : NeedsEncrypt(courses, mirror, p) }
      encSeq == SelectSeq(order, LAMBDA p : p \in stale)
      mirror1 == [q \in DOMAIN mirror \cup { MirrorPath(p) : p \in stale } |->
                    IF \E p \in stale : MirrorPath(p) = q
                    THEN LET p == CHOOSE p \in stale : MirrorPath(p) = q
                         IN [data |-> Encrypt(courses[p].data, cfg.rcpt), mtime |-> clock]
                    ELSE mirror[q]]
      dirs1 == mirrorDirs \cup { << >> } \cup courseDirs
      kept == { q \in DOMAIN mirror1 : ~IsOrphan(q) }
      mirror2 == [q \in kept |-> mirror1[q]]
      dirs2 == RemoveEmptyDirs(dirs1, mirror2)
      roots1 == [p \in DOMAIN rootFiles \cup { README_PATH, GITIGNORE_PATH } |->
                   IF p = README_PATH THEN TextData(3)
                   ELSE IF p = GITIGNORE_PATH THEN TextData(2)
                   ELSE rootFiles[p]]
      n == OkCount(GitSnapshotCmds, gitFail)
      index1 == IF n >= 2 THEN GitAddAll(courses, mirror2, roots1, index) ELSE index
  IN
  /\ pc = "menu"
  /\ ~NothingToPush
  /\ mirror' = mirror2
  /\ mirrorDirs' = dirs2
  /\ rootFiles' = roots1
  /\ index' = index1
  /\ git' = IF n >= 1 THEN [git EXCEPT !.upstream = FALSE, !.ahead = 0, !.behind = 0]
            ELSE git
  /\ remoteTree' = IF n = Len(GitSnapshotCmds) THEN index1 ELSE remoteTree
  /\ pc' = IF gitFail = 0 THEN "menu" ELSE "stopped"
  /\ hist' = [NoHist EXCEPT !.op = "push", !.at = clock,
                !.steps = [i \in 1..Len(encSeq) |-> Step("age -r", TRUE)]
                            \o RunSteps(GitSnapshotCmds, gitFail),
                !.done = (gitFail = 0),
                !.stale = stale, !.encrypted = stale,
                !.srcBefore = courses, !.mirBefore = mirror,
                !.dirsBefore = mirrorDirs,
                !.staged = IF n >= 2 THEN DOMAIN index1 ELSE {},
                !.deleted = JustDeleted,
                !.prevPush = (hist.op = "push" /\ hist.done /\ ~hist.early)]
  /\ UNCHANGED << clock, cfg, courses, courseDirs >>

\* -------------------------------------------------------------------- pull
\* A variant of the loop that stops at the first failing file.
AttemptedUntilFailure(files, bad) ==
  LET order == WalkOrder(files)
  IN { q \in files :
         \A b \in bad \cap files : IndexOf(order, q) <= IndexOf(order, b) }
\* lines 271-289: the decryption of every *.age file is run; a failure is
\* caught and reported (bad: the files on which age -d exits non-zero).
Attempted(files, bad) == files

\* pull_courses.  fetchOk, resetOk: whether git fetch and git reset --hard
\* exit zero; div: the outcome of the divergence check; decFail (chosen below): the mirror files on which age -d exits
\* non-zero for a reason of its own (a blob for another key always fails).
PullSync(fetchOk, resetOk, div) ==
  LET hasMain == DOMAIN remoteTree # {}
      \* git pull --ff-only needs an upstream and nothing local to keep
      ffOk == git.upstream /\ git.ahead = 0 /\ hasMain
      resetRun == fetchOk /\ (div \/ ~ffOk)
      resetGood == resetRun /\ resetOk /\ hasMain
      synced == fetchOk /\ ((~div /\ ffOk) \/ resetGood)
      \* return at line 244 or at line 254
      aborted == ~fetchOk \/ (div /\ ~resetGood)
      mirror1 == IF synced THEN CheckoutMirror(remoteTree, index, mirror, clock)
                 ELSE mirror
      dirs1 == IF synced THEN CheckoutMirrorDirs(remoteTree, index, mirror, mirrorDirs)
               ELSE mirrorDirs
      \* line 266: encrypted/ exists
      loop == ~aborted /\ << >> \in dirs1
      ageFiles == IF loop THEN { q \in DOMAIN mirror1 : EndsWithAge(Last(q)) } ELSE {}
      gitSteps ==
        << Step("git fetch origin", fetchOk) >>
          \o (IF ~fetchOk THEN << >>
              ELSE << Step("git status", TRUE) >>
                \o (IF div THEN << Step("git reset --hard", resetGood) >>
                    ELSE << Step("git pull --ff-only", ffOk) >>
                      \o (IF ffOk THEN << >>
                          ELSE << Step("git reset --hard", resetGood) >>)))
  IN
  /\ pc = "menu"
  /\ ~fetchOk => resetOk
  /\ mirror' = mirror1
  /\ mirrorDirs' = dirs1
  /\ rootFiles' = IF synced THEN CheckoutRoots(remoteTree, index, rootFiles)
                  ELSE rootFiles
  /\ index' = IF synced THEN remoteTree ELSE index
  /\ git' = IF synced THEN [git EXCEPT !.ahead = 0, !.behind = 0] ELSE git
  /\ \E decFail \in SUBSET ageFiles :
       LET bad == { q \in ageFiles :
                      q \in decFail \/ ~CanDecrypt(mirror1[q].data, OwnKey) }
           attempted == Attempted(ageFiles, bad)
           okSet == attempted \ bad
           written == { WithSuffixEmpty(q) : q \in okSet }
           decSeq == WalkOrder(attempted)
       IN
       /\ decFail \cap { q \in ageFiles : ~CanDecrypt(mirror1[q].data, OwnKey) } = {}
       /\ courses' = [p \in DOMAIN courses \cup written |->
                        IF p \in written
                        THEN LET q == CHOOSE q \in okSet : WithSuffixEmpty(q) = p
                             IN [data |-> Decrypt(mirror1[q].data, OwnKey),
                                 mtime |-> clock]
                        ELSE courses[p]]
       /\ courseDirs' = courseDirs
                          \cup UNION { Ancestors(WithSuffixEmpty(q)) : q \in attempted }
       /\ hist' = [NoHist EXCEPT !.op = "pull", !.at = clock,
                     !.steps = gitSteps
                       \o [i \in 1..Len(decSeq) |-> Step("age -d", decSeq[i] \in okSet)],
                     !.done = TRUE,
                     !.mirBefore = mirror,
                     !.attempted = attempted, !.written = written,
                     !.failed = attempted \ okSet, !.loop = loop,
                     !.prevPush = (hist.op = "push" /\ hist.done /\ ~hist.early),
                     !.pushSrc = IF hist.op = "push" THEN hist.srcBefore ELSE EmptyFiles,
                     !.pushEnc = IF hist.op = "push" THEN hist.encrypted ELSE {},
                     !.pushMir = IF hist.op = "push" THEN hist.mirBefore ELSE EmptyFiles,
                     !.ab = << git.upstream, git.ahead, git.behind >>]
  /\ UNCHANGED << pc, clock, cfg, remoteTree >>

\* lines 247-249: the divergence check on the output of git status.
PullCourses(fetchOk, resetOk) ==
  \E div \in { Diverged(StatusStdout(git.upstream, git.ahead, git.behind)) } :
    PullSync(fetchOk, resetOk, div)

\* --------------------------------------------------------------- configure
\* The commands configure_repo runs through run(): lines 97 and 111-117.
ConfigureCmds ==
  (IF cfg.key THEN << >> ELSE << "age-keygen" >>)
    \o (IF git.exists THEN << >>
        ELSE << "git init", "git remote add origin", "git branch -M main",
                "git add .gitignore", "git commit" >>)

\* configure_repo, called by menu() when the program starts.  rcptIn is the
\* public key the operator types when none is stored; failAt the position of
\* the command that exits non-zero (0: none), on which run() exits.
ConfigureRepo(rcptIn, failAt) ==
  LET cmds == ConfigureCmds
      n == OkCount(cmds, failAt)
      ran(c) == \E i \in 1..n : cmds[i] = c
      keyOk == cfg.key \/ ran("age-keygen")
  IN
  /\ pc = "stopped"
  /\ failAt \in 0..Len(cmds)
  /\ cfg.rcpt # 0 => rcptIn = cfg.rcpt
  /\ cfg' = IF keyOk THEN [key |-> TRUE, repo |-> TRUE,
                           rcpt |-> IF cfg.rcpt = 0 THEN rcptIn ELSE cfg.rcpt]
            ELSE cfg
  /\ git' = IF ran("git init") THEN [git EXCEPT !.exists = TRUE] ELSE git
  /\ rootFiles' = IF ran("git branch -M main")
                  THEN [p \in DOMAIN rootFiles \cup { GITIGNORE_PATH } |->
                          IF p = GITIGNORE_PATH THEN TextData(1) ELSE rootFiles[p]]
                  ELSE rootFiles
  /\ index' = IF ran("git add .gitignore")
              THEN [p \in { GITIGNORE_PATH } |-> TextData(1)]
              ELSE index
  /\ pc' = IF failAt = 0 THEN "menu" ELSE "stopped"
  /\ hist' = [NoHist EXCEPT !.op = "configure", !.steps = RunSteps(cmds, failAt),
                            !.done = (failAt = 0)]
  /\ UNCHANGED << clock, courses, courseDirs, mirror, mirrorDirs, remoteTree >>

\* ------------------------------------------------- add device, status, quit
\* add_device: shutil.copy(AGE_KEY_PATH, new_path)
AddDevice(dest) ==
  /\ pc = "menu"
  /\ rootFiles' = [p \in DOMAIN rootFiles \cup { dest } |->
                     IF p = dest THEN KeyData ELSE rootFiles[p]]
  /\ hist' = [NoHist EXCEPT !.op = "add_device", !.done = TRUE]
  /\ UNCHANGED << pc, clock, cfg, courses, courseDirs, mirror, mirrorDirs,
                  git, index, remoteTree >>

\* status: run("git status")
Status(ok) ==
  /\ pc = "menu"
  /\ pc' = IF ok THEN "menu" ELSE "stopped"
  /\ hist' = [NoHist EXCEPT !.op = "status", !.steps = << Step("git status", ok) >>,
                            !.done = ok]
  /\ UNCHANGED << clock, cfg, courses, courseDirs, mirror, mirrorDirs, rootFiles,
                  git, index, remoteTree >>

\* menu choice 5: exit()
Quit ==
  /\ pc = "menu"
  /\ pc' = "stopped"
  /\ hist' = [NoHist EXCEPT !.op = "quit"]
  /\ UNCHANGED << clock, cfg, courses, courseDirs, mirror, mirrorDirs, rootFiles,
                  git, index, remoteTree >>

\* ------------------------------------------------------------- environment
EnvHist == [NoHist EXCEPT !.op = "env"]

\* The operator writes course file p with content c; t is the modification
\* time the file ends up with (now, or an older one when a copy is restored
\* with its timestamp).
WriteSource(p, c, t) ==
  /\ t <= clock
  /\ courses' = [x \in DOMAIN courses \cup {p} |->
                   IF x = p THEN [data |-> Plain(c), mtime |-> t] ELSE courses[x]]
  /\ courseDirs' = courseDirs \cup Ancestors(p)
  /\ hist' = EnvHist
  /\ UNCHANGED << pc, clock, cfg, mirror, mirrorDirs, rootFiles, git, index,
                  remoteTree >>

\* The operator deletes course file p.
DeleteSource(p) ==
  /\ p \in DOMAIN courses
  /\ courses' = [x \in DOMAIN courses \ {p} |-> courses[x]]
  /\ hist' = [NoHist EXCEPT !.op = "delete", !.deleted = p]
  /\ UNCHANGED << pc, clock, cfg, courseDirs, mirror, mirrorDirs, rootFiles, git,
                  index, remoteTree >>

\* The operator removes the empty directory d of courses/.
RemoveSourceDir(d) ==
  /\ d \in courseDirs
  /\ \A p \in DOMAIN courses : ~IsPrefix(d, p)
  /\ \A e \in courseDirs : ~IsProperPrefix(d, e)
  /\ courseDirs' = courseDirs \ {d}
  /\ hist' = EnvHist
  /\ UNCHANGED << pc, clock, cfg, courses, mirror, mirrorDirs, rootFiles, git,
                  index, remoteTree >>

\* Time passes.
Tick ==
  /\ clock < MaxClock
  /\ clock' = clock + 1
  /\ UNCHANGED << pc, cfg, courses, courseDirs, mirror, mirrorDirs, rootFiles,
                  git, index, remoteTree, hist >>

\* The snapshot another device of the same operator has pushed: a blob for
\* this device's key, a blob for a foreign key and a file that is no blob.
OtherSnapshot ==
  LET paths == { GITIGNORE_PATH, README_PATH,
                 ENCRYPTED_DIR \o << "a.t.age" >>,
                 ENCRYPTED_DIR \o << "m", "x", "n.age" >>,
                 ENCRYPTED_DIR \o << "z" >> }
  IN [p \in paths |->
        IF p = GITIGNORE_PATH THEN TextData(2)
        ELSE IF p = README_PATH THEN TextData(3)
        ELSE IF p = ENCRYPTED_DIR \o << "a.t.age" >> THEN Encrypt(Plain(1), OwnKey)
        ELSE IF p = ENCRYPTED_DIR \o << "m", "x", "n.age" >> THEN Encrypt(Plain(2), 2)
        ELSE JunkData]

\* Another device changes the remote's main branch: by commits on top of it
\* (rewrite = FALSE) or by a forced push of a new root commit.
RemoteUpdate(rewrite) ==
  /\ remoteTree' = OtherSnapshot
  /\ git.upstream /\ ~rewrite => git.behind < MaxAB
  /\ git' = IF ~git.upstream THEN git
            ELSE IF rewrite THEN [git EXCEPT !.ahead = 1, !.behind = 1]
            ELSE [git EXCEPT !.behind = @ + 1]
  /\ hist' = EnvHist
  /\ UNCHANGED << pc, clock, cfg, courses, courseDirs, mirror, mirrorDirs,
                  rootFiles, index >>

\* ----------------------------------------------------------- specification
\* Before the program first runs: either nothing exists, or the operator has
\* cloned the remote into LOCAL_DIR (so main tracks origin/main).
InitFresh ==
  /\ cfg = [key |-> FALSE, repo |-> FALSE, rcpt |-> 0]
  /\ mirror = EmptyFiles
  /\ mirrorDirs = {}
  /\ rootFiles = EmptyTree
  /\ git = [exists |-> FALSE, upstream |-> FALSE, ahead |-> 0, behind |-> 0]
  /\ index = EmptyTree
  /\ remoteTree \in { EmptyTree, OtherSnapshot }

InitCloned ==
  /\ cfg = [key |-> FALSE, repo |-> FALSE, rcpt |-> 0]
  /\ mirror = CheckoutMirror(OtherSnapshot, EmptyTree, EmptyFiles, 0)
  /\ mirrorDirs = CheckoutMirrorDirs(OtherSnapshot, EmptyTree, EmptyFiles, {})
  /\ rootFiles = CheckoutRoots(OtherSnapshot, EmptyTree, EmptyTree)
  /\ git = [exists |-> TRUE, upstream |-> TRUE, ahead |-> 0, behind |-> 0]
  /\ index = OtherSnapshot
  /\ remoteTree = OtherSnapshot

InitLocal ==
  /\ pc = "stopped"
  /\ clock = 0
  /\ courses = EmptyFiles
  /\ courseDirs = {}
  /\ hist = NoHist

Init == InitLocal /\ (InitFresh \/ InitCloned)

\* A new device of an operator whose other device has pushed already.
InitNewDevice == InitLocal /\ InitFresh /\ remoteTree = OtherSnapshot

\* The file synchronisation: every git command succeeds, encryptions and
\* decryptions may fail; the operator edits, restores and deletes course files.
\* The root file takes every content; the nested file, which is there for the
\* directories, takes one content and every modification time.
NextSync ==
  \/ ConfigureRepo(OwnKey, 0)
  \/ PushEarly
  \/ \E p \in SrcPaths : PushEncryptFails(p)
  \/ PushCourses(0)
  \/ PullCourses(TRUE, TRUE)
  \/ \E c \in 1..MaxContent, t \in 0..MaxClock : WriteSource(<<"a.t">>, c, t)
  \/ \E t \in 0..MaxClock : WriteSource(<<"m", "x", "n">>, 1, t)
  \/ \E p \in SrcPaths : DeleteSource(p)
  \/ \E d \in SrcDirs : RemoveSourceDir(d)
  \/ Tick

SpecSync == InitNewDevice /\ [][NextSync]_vars

\* The key material: every operation of the menu with every failure of an
\* external command, over one course file.
NextKey ==
  \/ \E f \in 0..6 : ConfigureRepo(OwnKey, f)
  \/ PushEarly
  \/ \E p \in SrcPaths : PushEncryptFails(p)
  \/ \E g \in 0..Len(GitSnapshotCmds) : PushCourses(g)
  \/ \E fo, ro \in BOOLEAN : PullCourses(fo, ro)
  \/ \E d \in KeyDests : AddDevice(d)
  \/ Quit
  \/ WriteSource(<< "a.t" >>, 1, 0)
  \/ RemoteUpdate(TRUE)

SpecKey == Init /\ [][NextKey]_vars

\* The sequencing of external commands: every operation with every failure,
\* the remote changing under the device.
NextSeq ==
  \/ \E r \in KeyIds, f \in 0..6 : ConfigureRepo(r, f)
  \/ PushEarly
  \/ \E p \in SrcPaths : PushEncryptFails(p)
  \/ \E g \in 0..Len(GitSnapshotCmds) : PushCourses(g)
  \/ \E fo, ro \in BOOLEAN : PullCourses(fo, ro)
  \/ \E ok \in BOOLEAN : Status(ok)
  \/ Quit
  \/ \E p \in SrcPaths : WriteSource(p, 1, 0)
  \/ \E rw \in BOOLEAN : RemoteUpdate(rw)

SpecSeq == Init /\ [][NextSeq]_vars

\* ================================================================== claims
HasStep(cmd) == \E i \in 1..Len(hist.steps) : hist.steps[i].cmd = cmd
CountSteps(cmd) == Cardinality({ i \in 1..Len(hist.steps) : hist.steps[i].cmd = cmd })

\* C1: whatever operations ran before, the paths a push stages with
\* git add -A never include config/age_key.txt, and git never tracks it.
C1_KeyPathNeverStaged ==
  /\ AGE_KEY_PATH \notin hist.staged
  /\ AGE_KEY_PATH \notin DOMAIN index
  /\ AGE_KEY_PATH \notin DOMAIN remoteTree

\* A push has staged the encrypted mirror while the key file lies in config/.
C1_Witness ==
  /\ hist.op = "push"
  /\ cfg.key
  /\ ENCRYPTED_DIR \o << "a.t.age" >> \in hist.staged
  /\ GITIGNORE_PATH \in hist.staged

\* C10: no file that a push stages holds the private key, wherever add_device
\* has copied the key to.
C10_NoKeyMaterialStaged ==
  hist.op = "push" => \A p \in hist.staged : index[p].kind # "key"

\* C2: a push that directly follows a completed push, with no change to a
\* course file in between, encrypts nothing, commits nothing and pushes
\* nothing to the remote.
C2_SecondPushDoesNothing ==
  (hist.op = "push" /\ hist.prevPush) =>
    /\ hist.encrypted = {}
    /\ ~HasStep("age -r")
    /\ ~HasStep("git commit")
    /\ ~HasStep("git push --force origin main")

\* C3 as claimed: after a completed push directly followed by a pull, every
\* file that was under courses/ at the push is there with the content it had
\* at the push.
C3_RoundTripEveryFile ==
  (hist.op = "pull" /\ hist.prevPush) =>
    \A p \in DOMAIN hist.pushSrc :
      p \in DOMAIN courses /\ courses[p].data = hist.pushSrc[p].data

\* The mirror entry of p was up to date when the push ended: the push
\* encrypted p, or the entry already was the encryption of p's content.
PushedFresh(p) ==
  \/ p \in hist.pushEnc
  \/ /\ MirrorPath(p) \in DOMAIN hist.pushMir
     /\ hist.pushMir[MirrorPath(p)].data = Encrypt(hist.pushSrc[p].data, cfg.rcpt)

\* C3 amended: after a completed push directly followed by a pull, every file
\* that the push encrypted or whose mirror entry already held its content is
\* under courses/ with the content it had at the push; when the pull reaches
\* its decryption loop it decrypts the entry at the source path plus ".age",
\* and a successful decryption writes exactly the source's relative path.
C3_RoundTripFreshFiles ==
  (hist.op = "pull" /\ hist.prevPush) =>
    \A p \in { x \in DOMAIN hist.pushSrc : PushedFresh(x) } :
      /\ p \in DOMAIN courses
      /\ courses[p].data = hist.pushSrc[p].data
      /\ hist.loop => MirrorPath(p) \in hist.attempted
      /\ (hist.loop /\ MirrorPath(p) \notin hist.failed) => p \in hist.written

\* A pull after a push has decrypted a file two directories deep, which that
\* push had encrypted, back to its path.
C3_Witness ==
  /\ hist.op = "pull" /\ hist.prevPush
  /\ << "m", "x", "n" >> \in hist.pushEnc
  /\ << "m", "x", "n" >> \in hist.written
  /\ << "a.t" >> \in hist.written

\* C4: a push that directly follows the deletion of course file p and runs
\* to completion leaves no mirror entry for p, and no mirror directory that
\* the removal left empty.
C4_DeletedFilePruned ==
  (hist.op = "push" /\ hist.done /\ hist.deleted # NoPath) =>
    LET q == MirrorPath(hist.deleted)
        d == Parent(q)
    IN /\ q \notin DOMAIN mirror
       /\ (d # << >> /\ \A x \in DOMAIN mirror : ~IsPrefix(d, x)) => d \notin mirrorDirs

\* The claim's set: the course files whose mirror entry is absent or strictly
\* older than the file.
C5_StaleSet ==
  { p \in DOMAIN hist.srcBefore :
      \/ MirrorPath(p) \notin DOMAIN hist.mirBefore
      \/ hist.srcBefore[p].mtime > hist.mirBefore[MirrorPath(p)].mtime }

\* C5: a push encrypts only course files whose mirror entry is absent or
\* strictly older, and, when no encryption fails, all of them; the mirror
\* entry of every other course file is left as it was, that of an encrypted
\* file is rewritten.
C5_EncryptsExactlyStale ==
  hist.op = "push" =>
    /\ hist.encrypted \subseteq C5_StaleSet
    /\ (\A i \in 1..Len(hist.steps) : hist.steps[i].ok) => hist.encrypted = C5_StaleSet
    /\ CountSteps("age -r") >= Cardinality(hist.encrypted)
    /\ \A p \in DOMAIN hist.srcBefore \ C5_StaleSet :
         mirror[MirrorPath(p)] = hist.mirBefore[MirrorPath(p)]
    /\ \A p \in hist.encrypted :
         mirror[MirrorPath(p)] =
           [data |-> Encrypt(hist.srcBefore[p].data, cfg.rcpt), mtime |-> hist.at]

\* A push has re-encrypted one file, newer than its mirror entry, and left
\* alone another whose modification time equals its mirror entry's.
C5_Witness ==
  /\ hist.op = "push" /\ hist.done
  /\ \E p, r \in DOMAIN hist.srcBefore :
       /\ p \in hist.encrypted
       /\ MirrorPath(p) \in DOMAIN hist.mirBefore
       /\ r \notin hist.encrypted
       /\ hist.srcBefore[r].mtime = hist.mirBefore[MirrorPath(r)].mtime

\* C6: after a successful fetch, when the local branch has no commit the
\* remote lacks (ahead 0) pull runs git pull --ff-only first, and does not
\* reset on the divergence check.
C6_FastForwardWhenNotAhead ==
  (hist.op = "pull" /\ Len(hist.steps) >= 3 /\ hist.ab[2] = 0) =>
    hist.steps[3].cmd = "git pull --ff-only"

\* C7: push runs no git command after a failed encryption or a failed git
\* command, and pull decrypts no file after a failed fetch or a failed reset.
C7_NothingAfterFailure ==
  \A i, j \in 1..Len(hist.steps) :
    (i < j /\ ~hist.steps[i].ok) =>
      /\ hist.op # "push"
      /\ hist.steps[i].cmd \in { "git fetch origin", "git reset --hard" }
           => hist.steps[j].cmd # "age -d"

\* C8: a pull that reaches its decryption loop runs age -d on every *.age
\* file of the mirror, whichever decryptions fail, and every file decrypted
\* successfully is at its destination with the decrypted content.
C8_DecryptFailuresSkipped ==
  (hist.op = "pull" /\ hist.loop) =>
    /\ hist.attempted = { q \in DOMAIN mirror : EndsWithAge(Last(q)) }
    /\ CountSteps("age -d") = Cardinality(hist.attempted)
    /\ hist.failed \subseteq hist.attempted
    /\ \A q \in hist.attempted \ hist.failed :
         /\ WithSuffixEmpty(q) \in DOMAIN courses
         /\ courses[WithSuffixEmpty(q)].data = Decrypt(mirror[q].data, OwnKey)

\* A pull in which the decryption of the first file in walk order failed and
\* that of a later file succeeded.
C8_Witness ==
  /\ hist.op = "pull" /\ hist.loop
  /\ << "a.t.age" >> \in hist.failed
  /\ << "m", "x", "n" >> \in hist.written

\* C9: after a push that ran to completion, every *.age file of the mirror
\* has its course file, every course file has its mirror entry and no mirror
\* directory but encrypted/ itself is empty.
C9_MirrorOneToOne ==
  (hist.op = "push" /\ hist.done) =>
    /\ \A q \in DOMAIN mirror :
         EndsWithAge(Last(q)) => WithSuffixEmpty(q) \in DOMAIN courses
    /\ \A p \in DOMAIN courses : MirrorPath(p) \in DOMAIN mirror
    /\ \A d \in mirrorDirs \ { << >> } : \E q \in DOMAIN mirror : IsPrefix(d, q)

====
